---- MODULE Spec2Model ----
(***************************************************************************)
(* Reversi rules engine: the dense-grid board (src/src/board.rs), the      *)
(* turn controller SimpleReversiGame (src/src/game.rs), the strategies     *)
(* (src/src/computer.rs) and the stone type (src/src/stone.rs).            *)
(*                                                                         *)
(* A board is the Vec<Vec<Option<Stone>>> of the source: a sequence of     *)
(* rows, each a sequence of cells; cell (x, y) of the source is            *)
(* b[y + 1][x + 1] here because TLA+ sequences start at 1.  Coordinates    *)
(* themselves keep the source's 0-based values.                            *)
(***************************************************************************)
EXTENDS Integers, Sequences, FiniteSets, TLC

\* ------------------------------------------------------------------ bounds
\* Side of the small board the games are played on (with_size(Size)).
Size == 4
\* Side of the default board (DEFAULT_BOARD_SIZE).
DEFAULT_BOARD_SIZE == 8
\* Placements explored from an initial position on the small board.
MaxPlies == 4
\* Placements explored from an initial position on the default board.
MaxPliesDefault == 2
\* Placements explored when put_stone is called on the board object directly
\* (either player may be named at any call).
MaxBoardPlies == 2
\* Coordinates offered to put_stone run from 0 to size - 1 + Overshoot.
Overshoot == 1
\* Placements explored when the strategies choose the moves.
MaxComputerPlies == 2
\* The values drawn by rand::random run from 0 to MaxRandom.
MaxRandom == 5
\* Placements allowed in a game played out from the opening of the small
\* board; the board itself leaves room for fewer.
MaxGamePlies == 14

\* ------------------------------------------------------------------ stones
Black == "Black"
White == "White"
None == "None"
Stone == {Black, White}

Opposite(s) == IF s = Black THEN White ELSE Black

DIRECTIONS ==
    << <<-1, -1>>, <<-1, 0>>, <<-1, 1>>, <<0, -1>>,
       <<0, 1>>, <<1, -1>>, <<1, 0>>, <<1, 1>> >>

Point(x, y) == [x |-> x, y |-> y]

\* ------------------------------------------------------------------ results
Ok == [kind |-> "Ok", who |-> None]
StoneAlreadyPlaced == [kind |-> "StoneAlreadyPlaced", who |-> None]
InvalidMove == [kind |-> "InvalidMove", who |-> None]
IndexOutOfBound == [kind |-> "IndexOutOfBound", who |-> None]
NoStoneToFlip == [kind |-> "NoStoneToFlip", who |-> None]
NextPlayerCantPutStone == [kind |-> "NextPlayerCantPutStone", who |-> None]
GameOverWithWinner(s) == [kind |-> "GameOverWithWinner", who |-> s]
GameOverWithDraw == [kind |-> "GameOverWithDraw", who |-> None]
\* No call made yet.
NoCall == [kind |-> "NoCall", who |-> None]

\* ------------------------------------------------------------------ board
with_size(n) == [r \in 1..n |-> [c \in 1..n |-> None]]

size(b) == Len(b)

in_range(b, x, y) == x \in 0..(size(b) - 1) /\ y \in 0..(size(b) - 1)

get_at(b, x, y) == IF in_range(b, x, y) THEN b[y + 1][x + 1] ELSE None

\* Assignment self.board[y][x] = v.
set_at(b, x, y, v) == [b EXCEPT ![y + 1][x + 1] = v]

count(b, player) ==
    Cardinality({p \in (1..size(b)) \X (1..size(b)) : b[p[1]][p[2]] = player})

\* Faulty variant of init_four_central_squares: the colours are exchanged.
init_four_central_squares_swapped(b) ==
    LET half == size(b) \div 2
        b1 == set_at(b, half - 1, half - 1, Black)
        b2 == set_at(b1, half, half - 1, White)
        b3 == set_at(b2, half - 1, half, White)
    IN  set_at(b3, half, half, Black)

init_four_central_squares(b) ==
    LET half == size(b) \div 2
        b1 == set_at(b, half - 1, half - 1, White)
        b2 == set_at(b1, half, half - 1, Black)
        b3 == set_at(b2, half - 1, half, Black)
    IN  set_at(b3, half, half, White)

\* Faulty variant of flip: the stone is taken off the board instead of being
\* turned over.
flip_clearing(b, x, y) ==
    IF ~in_range(b, x, y) THEN [board |-> b, res |-> IndexOutOfBound]
    ELSE IF get_at(b, x, y) = None THEN [board |-> b, res |-> NoStoneToFlip]
    ELSE [board |-> set_at(b, x, y, None), res |-> Ok]

flip(b, x, y) ==
    IF ~in_range(b, x, y) THEN [board |-> b, res |-> IndexOutOfBound]
    ELSE IF get_at(b, x, y) = None THEN [board |-> b, res |-> NoStoneToFlip]
    ELSE [board |-> set_at(b, x, y, Opposite(get_at(b, x, y))), res |-> Ok]

\* Faulty variant of is_game_over: the board counts as full one stone early.
is_game_over_one_short(b) ==
    count(b, Black) + count(b, White) >= size(b) * size(b) - 1

is_game_over(b) == count(b, Black) + count(b, White) = size(b) * size(b)

winner(b) ==
    IF count(b, Black) > count(b, White) THEN GameOverWithWinner(Black)
    ELSE IF count(b, Black) < count(b, White) THEN GameOverWithWinner(White)
    ELSE GameOverWithDraw

\* Faulty variant of run: the cell that ends the run is pushed as well.
RECURSIVE run_pushing_end(_, _, _, _, _, _)
run_pushing_end(b, x, y, dx, dy, player) ==
    IF get_at(b, x, y) = Opposite(player)
    THEN <<Point(x, y)>> \o run_pushing_end(b, x + dx, y + dy, dx, dy, player)
    ELSE <<Point(x, y)>>

\* The while loop of check_can_put / get_flippable: the stack of
\* consecutive opposite(player) cells from (x, y) in direction (dx, dy).
RECURSIVE run(_, _, _, _, _, _)
run(b, x, y, dx, dy, player) ==
    IF get_at(b, x, y) = Opposite(player)
    THEN <<Point(x, y)>> \o run(b, x + dx, y + dy, dx, dy, player)
    ELSE <<>>

\* Faulty variant of check_can_put: the occupancy test is missing.
check_can_put_on_any_cell(b, x, y, player) ==
    /\ in_range(b, x, y)
    /\ \E i \in 1..Len(DIRECTIONS) :
          LET dx == DIRECTIONS[i][1]
              dy == DIRECTIONS[i][2]
              stack == run(b, x + dx, y + dy, dx, dy, player)
              ex == x + dx + Len(stack) * dx
              ey == y + dy + Len(stack) * dy
          IN  /\ in_range(b, x + dx, y + dy)
              /\ get_at(b, ex, ey) = player
              /\ stack # <<>>

\* Faulty variant of check_can_put: the range test is missing.
check_can_put_unranged(b, x, y, player) ==
    /\ get_at(b, x, y) = None
    /\ \E i \in 1..Len(DIRECTIONS) :
          LET dx == DIRECTIONS[i][1]
              dy == DIRECTIONS[i][2]
              stack == run(b, x + dx, y + dy, dx, dy, player)
              ex == x + dx + Len(stack) * dx
              ey == y + dy + Len(stack) * dy
          IN  /\ in_range(b, x + dx, y + dy)
              /\ get_at(b, ex, ey) = player
              /\ stack # <<>>

check_can_put(b, x, y, player) ==
    /\ in_range(b, x, y)
    /\ get_at(b, x, y) = None
    /\ \E i \in 1..Len(DIRECTIONS) :
          LET dx == DIRECTIONS[i][1]
              dy == DIRECTIONS[i][2]
              stack == run(b, x + dx, y + dy, dx, dy, player)
              ex == x + dx + Len(stack) * dx
              ey == y + dy + Len(stack) * dy
          IN  /\ in_range(b, x + dx, y + dy)
              /\ get_at(b, ex, ey) = player
              /\ stack # <<>>

\* Every cell in the order of the nested loops "for y { for x { .. } }".
AllPoints(b) ==
    [k \in 1..(size(b) * size(b)) |->
        Point((k - 1) % size(b), (k - 1) \div size(b))]

get_can_put_stones(b, player) ==
    SelectSeq(AllPoints(b), LAMBDA p : check_can_put(b, p.x, p.y, player))

\* Faulty variant of get_flippable_from: a run of opponent stones is taken
\* whatever ends it.
RECURSIVE get_flippable_from_open_runs(_, _, _, _, _)
get_flippable_from_open_runs(b, x, y, player, i) ==
    IF i > Len(DIRECTIONS) THEN <<>>
    ELSE LET dx == DIRECTIONS[i][1]
             dy == DIRECTIONS[i][2]
             stack == run(b, x + dx, y + dy, dx, dy, player)
             rest == get_flippable_from_open_runs(b, x, y, player, i + 1)
         IN  IF ~in_range(b, x + dx, y + dy) THEN rest
             ELSE stack \o rest

\* get_flippable, directions i..8: the stacks of the qualifying directions,
\* concatenated in direction order.
RECURSIVE get_flippable_from(_, _, _, _, _)
get_flippable_from(b, x, y, player, i) ==
    IF i > Len(DIRECTIONS) THEN <<>>
    ELSE LET dx == DIRECTIONS[i][1]
             dy == DIRECTIONS[i][2]
             stack == run(b, x + dx, y + dy, dx, dy, player)
             ex == x + dx + Len(stack) * dx
             ey == y + dy + Len(stack) * dy
             rest == get_flippable_from(b, x, y, player, i + 1)
         IN  IF ~in_range(b, x + dx, y + dy) THEN rest
             ELSE IF get_at(b, ex, ey) # player THEN rest
             ELSE stack \o rest

get_flippable(b, x, y, player) == get_flippable_from(b, x, y, player, 1)

count_flippable(b, x, y) ==
    IF get_at(b, x, y) = None THEN 0
    ELSE Len(get_flippable(b, x, y, get_at(b, x, y)))

\* An unwrap() that hit an Err: the thread panics.
Panic == [kind |-> "Panic", who |-> None]

\* for_each(|p| self.flip(p.x, p.y).unwrap()) over the flippable points.
RECURSIVE flip_each_unwrap(_, _)
flip_each_unwrap(b, points) ==
    IF points = <<>> THEN [board |-> b, res |-> Ok]
    ELSE LET r == flip(b, Head(points).x, Head(points).y)
         IN  IF r.res # Ok THEN [board |-> r.board, res |-> Panic]
             ELSE flip_each_unwrap(r.board, Tail(points))

\* ArrayBasedBoard::put_stone, from the board-full test to the end: what the
\* call returns once the stone is placed and the flips are done.
board_outcome(nb, player) ==
    IF is_game_over(nb) THEN winner(nb)
    ELSE IF get_can_put_stones(nb, Opposite(player)) = <<>>
    THEN IF get_can_put_stones(nb, player) = <<>>
         THEN winner(nb)
         ELSE NextPlayerCantPutStone
    ELSE IF count(nb, Opposite(player)) = 0
    THEN GameOverWithWinner(player)
    ELSE Ok

\* ArrayBasedBoard::put_stone(x, y, player): the grid it leaves and the value
\* it returns.
put_stone(b, x, y, player) ==
    IF ~check_can_put(b, x, y, player) THEN [board |-> b, res |-> InvalidMove]
    ELSE IF x >= size(b) \/ y >= size(b)
    THEN [board |-> b, res |-> IndexOutOfBound]
    ELSE IF get_at(b, x, y) # None
    THEN [board |-> b, res |-> StoneAlreadyPlaced]
    ELSE LET placed == set_at(b, x, y, player)
             f == flip_each_unwrap(placed, get_flippable(placed, x, y, player))
         IN  IF f.res # Ok THEN f
             ELSE [board |-> f.board, res |-> board_outcome(f.board, player)]

\* ------------------------------------------------------------ strategies
\* What a call of decide gives back: the point it returns, or the panic of
\* indexing an empty move list (point then carries no information).
Decided(p) == [res |-> Ok, point |-> p]

DecidePanic == [res |-> Panic, point |-> Point(0, 0)]

\* RandomComputer::decide, rnd being the value rand::random::<usize>() drew:
\* the remainder by an empty list's length panics as well.
RandomComputer_decide(b, color, rnd) ==
    LET can_put_stones == get_can_put_stones(b, color)
        index == rnd % Len(can_put_stones)
    IN  IF Len(can_put_stones) = 0 THEN DecidePanic
        ELSE Decided(can_put_stones[index + 1])

\* The three-argument count_flippable that SimpleComputer::decide calls: the
\* number of stones a placement by player at (x, y) would flip.
count_flippable_for(b, x, y, player) == Len(get_flippable(b, x, y, player))

\* Faulty variant of SimpleComputer_scan: a candidate that only equals the
\* best count so far replaces it.
RECURSIVE SimpleComputer_scan_last_wins(_, _, _, _, _, _)
SimpleComputer_scan_last_wins(b, color, can_put_stones, i, max_count, max_index) ==
    IF i >= Len(can_put_stones) THEN max_index
    ELSE LET p == can_put_stones[i + 1]
             cnt == count_flippable_for(b, p.x, p.y, color)
         IN  IF cnt >= max_count
             THEN SimpleComputer_scan_last_wins(b, color, can_put_stones, i + 1, cnt, i)
             ELSE SimpleComputer_scan_last_wins(b, color, can_put_stones, i + 1,
                                                max_count, max_index)

\* The loop of SimpleComputer::decide from candidate i (counted from 0) on:
\* the max_index it ends with.
RECURSIVE SimpleComputer_scan(_, _, _, _, _, _)
SimpleComputer_scan(b, color, can_put_stones, i, max_count, max_index) ==
    IF i >= Len(can_put_stones) THEN max_index
    ELSE LET p == can_put_stones[i + 1]
             cnt == count_flippable_for(b, p.x, p.y, color)
         IN  IF cnt > max_count
             THEN SimpleComputer_scan(b, color, can_put_stones, i + 1, cnt, i)
             ELSE SimpleComputer_scan(b, color, can_put_stones, i + 1,
                                      max_count, max_index)

\* Faulty variant of SimpleComputer_decide: the candidates are the legal moves
\* of the other side.
SimpleComputer_decide_for_opponent(b, color) ==
    LET can_put_stones == get_can_put_stones(b, Opposite(color))
        max_index == SimpleComputer_scan(b, color, can_put_stones, 0, 0, 0)
    IN  IF Len(can_put_stones) = 0 THEN DecidePanic
        ELSE Decided(can_put_stones[max_index + 1])

SimpleComputer_decide(b, color) ==
    LET can_put_stones == get_can_put_stones(b, color)
        max_index == SimpleComputer_scan(b, color, can_put_stones, 0, 0, 0)
    IN  IF Len(can_put_stones) = 0 THEN DecidePanic
        ELSE Decided(can_put_stones[max_index + 1])

\* WeightedComputer::WEIGHTS, indexed [y][x]; it covers boards up to 8 x 8.
WEIGHTS ==
    << << 150, -50, 20, 10, 10, 20, -50, 150 >>,
       << -50, -70, -3, -3, -3, -3, -70, -50 >>,
       << 20, -3, 3, 3, 3, 3, -3, 20 >>,
       << 10, -3, 3, 1, 1, 3, -3, 10 >>,
       << 10, -3, 3, 1, 1, 3, -3, 10 >>,
       << 20, -3, 3, 3, 3, 3, -3, 20 >>,
       << -50, -70, -3, -3, -3, -3, -70, -50 >>,
       << 150, -50, 20, 10, 10, 20, -50, 150 >> >>

I32_MIN == -2147483647 - 1

\* The nested loops over cloned_board.board(): the sum of WEIGHTS[y][x] over
\* the cells from the k-th on (row-major) that hold stone s.
RECURSIVE weight_sum(_, _, _)
weight_sum(b, s, k) ==
    IF k > size(b) * size(b) THEN 0
    ELSE LET x == (k - 1) % size(b)
             y == (k - 1) \div size(b)
         IN  (IF get_at(b, x, y) = s THEN WEIGHTS[y + 1][x + 1] ELSE 0)
                + weight_sum(b, s, k + 1)

\* Faulty variant of WeightedComputer_scan: the candidates are played on the
\* live board itself instead of a clone.
RECURSIVE WeightedComputer_scan_on_live(_, _, _, _, _, _)
WeightedComputer_scan_on_live(live, color, can_put_stones, i, max_count, max_index) ==
    IF i >= Len(can_put_stones) THEN [board |-> live, max_index |-> max_index]
    ELSE LET p == can_put_stones[i + 1]
             played == put_stone(live, p.x, p.y, color).board
             me == weight_sum(played, color, 1)
             enemy == weight_sum(played, Opposite(color), 1)
             diff == me - enemy
         IN  IF diff > max_count
             THEN WeightedComputer_scan_on_live(played, color, can_put_stones,
                                                i + 1, diff, i)
             ELSE WeightedComputer_scan_on_live(played, color, can_put_stones,
                                                i + 1, max_count, max_index)

\* Faulty variant of WeightedComputer_scan: a candidate that only equals the
\* best differential so far replaces it.
RECURSIVE WeightedComputer_scan_last_wins(_, _, _, _, _, _)
WeightedComputer_scan_last_wins(live, color, can_put_stones, i, max_count, max_index) ==
    IF i >= Len(can_put_stones) THEN [board |-> live, max_index |-> max_index]
    ELSE LET p == can_put_stones[i + 1]
             cloned_board == put_stone(live, p.x, p.y, color).board
             me == weight_sum(cloned_board, color, 1)
             enemy == weight_sum(cloned_board, Opposite(color), 1)
             diff == me - enemy
         IN  IF diff >= max_count
             THEN WeightedComputer_scan_last_wins(live, color, can_put_stones,
                                                  i + 1, diff, i)
             ELSE WeightedComputer_scan_last_wins(live, color, can_put_stones,
                                                  i + 1, max_count, max_index)

\* The loop of WeightedComputer::decide from candidate i (counted from 0) on.
\* Each candidate is played with put_stone on a clone of the live board,
\* whatever put_stone returns, and the clone is scored and dropped.  Gives the
\* live board and the max_index the loop ends with.
RECURSIVE WeightedComputer_scan(_, _, _, _, _, _)
WeightedComputer_scan(live, color, can_put_stones, i, max_count, max_index) ==
    IF i >= Len(can_put_stones) THEN [board |-> live, max_index |-> max_index]
    ELSE LET p == can_put_stones[i + 1]
             cloned_board == put_stone(live, p.x, p.y, color).board
             me == weight_sum(cloned_board, color, 1)
             enemy == weight_sum(cloned_board, Opposite(color), 1)
             diff == me - enemy
         IN  IF diff > max_count
             THEN WeightedComputer_scan(live, color, can_put_stones, i + 1, diff, i)
             ELSE WeightedComputer_scan(live, color, can_put_stones, i + 1,
                                        max_count, max_index)

\* WeightedComputer::decide: the live board as the call leaves it and what
\* the call gives back.
WeightedComputer_decide(b, color) ==
    LET can_put_stones == get_can_put_stones(b, color)
        r == WeightedComputer_scan(b, color, can_put_stones, 0, I32_MIN, 0)
    IN  IF Len(can_put_stones) = 0
        THEN [board |-> r.board, res |-> Panic, point |-> Point(0, 0)]
        ELSE [board |-> r.board, res |-> Ok,
              point |-> can_put_stones[r.max_index + 1]]

\* ------------------------------------------------------- turn controller
\* Board primitive used by the controller and not part of the sources at
\* hand: the direct placement with its own range and occupancy checks.
place_stone(b, x, y, player) ==
    IF ~in_range(b, x, y) THEN [board |-> b, res |-> IndexOutOfBound]
    ELSE IF get_at(b, x, y) # None THEN [board |-> b, res |-> StoneAlreadyPlaced]
    ELSE [board |-> set_at(b, x, y, player), res |-> Ok]

\* Faulty variant of game_check_can_put: a run of opponent stones qualifies
\* whatever ends it (a stone of the mover, an empty cell or the edge).
game_check_can_put_any_run(b, t, x, y) ==
    /\ in_range(b, x, y)
    /\ get_at(b, x, y) = None
    /\ \E i \in 1..Len(DIRECTIONS) :
          LET dx == DIRECTIONS[i][1]
              dy == DIRECTIONS[i][2]
              stack == run(b, x + dx, y + dy, dx, dy, t)
          IN  /\ in_range(b, x + dx, y + dy)
              /\ stack # <<>>

\* SimpleReversiGame::check_can_put(x, y), t being self.board.turn().
game_check_can_put(b, t, x, y) ==
    /\ in_range(b, x, y)
    /\ get_at(b, x, y) = None
    /\ \E i \in 1..Len(DIRECTIONS) :
          LET dx == DIRECTIONS[i][1]
              dy == DIRECTIONS[i][2]
              stack == run(b, x + dx, y + dy, dx, dy, t)
              ex == x + dx + Len(stack) * dx
              ey == y + dy + Len(stack) * dy
          IN  /\ in_range(b, x + dx, y + dy)
              /\ get_at(b, ex, ey) = t
              /\ stack # <<>>

game_get_can_put_stones(b, t) ==
    SelectSeq(AllPoints(b), LAMBDA p : game_check_can_put(b, t, p.x, p.y))

\* Faulty variant of game_winner: the two comparisons are exchanged.
game_winner_swapped(b) ==
    IF count(b, Black) < count(b, White) THEN GameOverWithWinner(Black)
    ELSE IF count(b, Black) > count(b, White) THEN GameOverWithWinner(White)
    ELSE GameOverWithDraw

game_winner(b) ==
    IF count(b, Black) > count(b, White) THEN GameOverWithWinner(Black)
    ELSE IF count(b, Black) < count(b, White) THEN GameOverWithWinner(White)
    ELSE GameOverWithDraw

\* for p in stack { self.board.flip(p.x, p.y)?; }
RECURSIVE flip_stack(_, _)
flip_stack(b, stack) ==
    IF stack = <<>> THEN [board |-> b, res |-> Ok]
    ELSE LET r == flip(b, Head(stack).x, Head(stack).y)
         IN  IF r.res # Ok THEN r ELSE flip_stack(r.board, Tail(stack))

\* Faulty variant of flip_directions: the loop ends after the first direction
\* that flips something.
RECURSIVE flip_directions_first_only(_, _, _, _, _)
flip_directions_first_only(b, t, x, y, i) ==
    IF i > Len(DIRECTIONS) THEN [board |-> b, res |-> Ok]
    ELSE LET dx == DIRECTIONS[i][1]
             dy == DIRECTIONS[i][2]
             stack == run(b, x + dx, y + dy, dx, dy, t)
             ex == x + dx + Len(stack) * dx
             ey == y + dy + Len(stack) * dy
         IN  IF ~in_range(b, x + dx, y + dy)
             THEN flip_directions_first_only(b, t, x, y, i + 1)
             ELSE IF get_at(b, ex, ey) # t
             THEN flip_directions_first_only(b, t, x, y, i + 1)
             ELSE IF stack = <<>>
             THEN flip_directions_first_only(b, t, x, y, i + 1)
             ELSE flip_stack(b, stack)

\* The direction loop of SimpleReversiGame::put_stone, directions i..8: each
\* direction is scanned on the board as the earlier directions left it.
RECURSIVE flip_directions(_, _, _, _, _)
flip_directions(b, t, x, y, i) ==
    IF i > Len(DIRECTIONS) THEN [board |-> b, res |-> Ok]
    ELSE LET dx == DIRECTIONS[i][1]
             dy == DIRECTIONS[i][2]
             stack == run(b, x + dx, y + dy, dx, dy, t)
             ex == x + dx + Len(stack) * dx
             ey == y + dy + Len(stack) * dy
         IN  IF ~in_range(b, x + dx, y + dy)
             THEN flip_directions(b, t, x, y, i + 1)
             ELSE IF get_at(b, ex, ey) # t
             THEN flip_directions(b, t, x, y, i + 1)
             ELSE LET r == flip_stack(b, stack)
                  IN  IF r.res # Ok THEN r
                      ELSE flip_directions(r.board, t, x, y, i + 1)

\* Faulty variant of game_outcome: the stored turn is not handed back to the
\* mover when the opponent cannot move.
game_outcome_turn_not_restored(nb, t) ==
    IF is_game_over(nb) THEN [turn |-> t, res |-> game_winner(nb)]
    ELSE IF game_get_can_put_stones(nb, Opposite(t)) = <<>>
    THEN IF game_get_can_put_stones(nb, t) = <<>>
         THEN [turn |-> Opposite(t), res |-> game_winner(nb)]
         ELSE [turn |-> Opposite(t), res |-> NextPlayerCantPutStone]
    ELSE IF count(nb, Opposite(t)) = 0
    THEN [turn |-> Opposite(t), res |-> GameOverWithWinner(t)]
    ELSE [turn |-> Opposite(t), res |-> Ok]

\* Faulty variant of game_outcome: the stored turn is not advanced on an
\* ordinary placement.
game_outcome_turn_not_advanced(nb, t) ==
    IF is_game_over(nb) THEN [turn |-> t, res |-> game_winner(nb)]
    ELSE IF game_get_can_put_stones(nb, Opposite(t)) = <<>>
    THEN IF game_get_can_put_stones(nb, t) = <<>>
         THEN [turn |-> t, res |-> game_winner(nb)]
         ELSE [turn |-> t, res |-> NextPlayerCantPutStone]
    ELSE IF count(nb, Opposite(t)) = 0
    THEN [turn |-> t, res |-> GameOverWithWinner(t)]
    ELSE [turn |-> t, res |-> Ok]

\* Faulty variant of game_outcome: the game is declared over as soon as the
\* opponent cannot move, without asking whether the mover still can.
game_outcome_pass_ends_game(nb, t) ==
    IF is_game_over(nb) THEN [turn |-> t, res |-> game_winner(nb)]
    ELSE IF game_get_can_put_stones(nb, Opposite(t)) = <<>>
    THEN [turn |-> t, res |-> game_winner(nb)]
    ELSE IF count(nb, Opposite(t)) = 0
    THEN [turn |-> Opposite(t), res |-> GameOverWithWinner(t)]
    ELSE [turn |-> Opposite(t), res |-> Ok]

\* Faulty variant of game_outcome: a mover whose opponent cannot move is told
\* to play again, without asking whether the mover still can.
game_outcome_always_pass(nb, t) ==
    IF is_game_over(nb) THEN [turn |-> t, res |-> game_winner(nb)]
    ELSE IF game_get_can_put_stones(nb, Opposite(t)) = <<>>
    THEN [turn |-> t, res |-> NextPlayerCantPutStone]
    ELSE IF count(nb, Opposite(t)) = 0
    THEN [turn |-> Opposite(t), res |-> GameOverWithWinner(t)]
    ELSE [turn |-> Opposite(t), res |-> Ok]

\* Faulty variant of game_outcome: when neither side can move the call
\* returns Ok instead of the winner.
game_outcome_silent_end(nb, t) ==
    IF is_game_over(nb) THEN [turn |-> t, res |-> game_winner(nb)]
    ELSE IF game_get_can_put_stones(nb, Opposite(t)) = <<>>
    THEN IF game_get_can_put_stones(nb, t) = <<>>
         THEN [turn |-> t, res |-> Ok]
         ELSE [turn |-> t, res |-> NextPlayerCantPutStone]
    ELSE IF count(nb, Opposite(t)) = 0
    THEN [turn |-> Opposite(t), res |-> GameOverWithWinner(t)]
    ELSE [turn |-> Opposite(t), res |-> Ok]

\* Faulty variant of game_outcome: the turn passes to the opponent without
\* asking whether the opponent can move.
game_outcome_without_pass(nb, t) ==
    IF is_game_over(nb) THEN [turn |-> t, res |-> game_winner(nb)]
    ELSE IF count(nb, Opposite(t)) = 0
    THEN [turn |-> Opposite(t), res |-> GameOverWithWinner(t)]
    ELSE [turn |-> Opposite(t), res |-> Ok]

\* SimpleReversiGame::put_stone, from the board-full test to the end, t being
\* the mover: the stored turn it leaves and the value it returns.
game_outcome(nb, t) ==
    IF is_game_over(nb) THEN [turn |-> t, res |-> game_winner(nb)]
    ELSE IF game_get_can_put_stones(nb, Opposite(t)) = <<>>
    THEN IF game_get_can_put_stones(nb, Opposite(Opposite(t))) = <<>>
         THEN [turn |-> Opposite(Opposite(t)), res |-> game_winner(nb)]
         ELSE [turn |-> Opposite(Opposite(t)), res |-> NextPlayerCantPutStone]
    ELSE IF count(nb, Opposite(t)) = 0
    THEN [turn |-> Opposite(t), res |-> GameOverWithWinner(Opposite(Opposite(t)))]
    ELSE [turn |-> Opposite(t), res |-> Ok]

\* Faulty variant of game_put_stone: the stone is placed before the move is
\* validated.
game_put_stone_placing_first(b, t, x, y) ==
    LET p == place_stone(b, x, y, t)
        f == flip_directions(p.board, t, x, y, 1)
        o == game_outcome(f.board, t)
    IN  IF p.res # Ok THEN [board |-> p.board, turn |-> t, res |-> p.res]
        ELSE IF ~game_check_can_put(b, t, x, y)
        THEN [board |-> p.board, turn |-> t, res |-> InvalidMove]
        ELSE IF f.res # Ok THEN [board |-> f.board, turn |-> t, res |-> f.res]
        ELSE [board |-> f.board, turn |-> o.turn, res |-> o.res]

\* SimpleReversiGame::put_stone(x, y) on grid b with stored turn t: the grid
\* and stored turn it leaves and the value it returns.
game_put_stone(b, t, x, y) ==
    IF ~game_check_can_put(b, t, x, y)
    THEN [board |-> b, turn |-> t, res |-> InvalidMove]
    ELSE LET p == place_stone(b, x, y, t)
             f == flip_directions(p.board, t, x, y, 1)
             o == game_outcome(f.board, t)
         IN  IF p.res # Ok THEN [board |-> p.board, turn |-> t, res |-> p.res]
             ELSE IF f.res # Ok THEN [board |-> f.board, turn |-> t, res |-> f.res]
             ELSE [board |-> f.board, turn |-> o.turn, res |-> o.res]

\* ------------------------------------------------------- game positions
\* SimpleReversiGame::new(): the four central stones, Black to move.
new_game(n) ==
    [board |-> init_four_central_squares(with_size(n)), turn |-> Black]

\* Position set up by tests::finish: White everywhere, (0, 0) empty and a
\* Black stone at the far end of row 0.
finish_position(n) ==
    [board |-> [r \in 1..n |-> [c \in 1..n |->
                   IF r = 1 /\ c = 1 THEN None
                   ELSE IF r = 1 /\ c = n THEN Black ELSE White]],
     turn |-> Black]

\* Position set up by tests::cant_put: Black at (0, 0), White at (1, 0).
cant_put_position(n) ==
    [board |-> [r \in 1..n |-> [c \in 1..n |->
                   IF r = 1 /\ c = 1 THEN Black
                   ELSE IF r = 1 /\ c = 2 THEN White ELSE None]],
     turn |-> Black]

\* A game in progress: the position after the calls of a line of play.
RECURSIVE after_calls(_, _)
after_calls(g, line) ==
    IF line = <<>> THEN g
    ELSE LET r == game_put_stone(g.board, g.turn, Head(line).x, Head(line).y)
         IN  after_calls([board |-> r.board, turn |-> r.turn], Tail(line))

\* Eight placements from the opening of the small board; twelve cells are
\* filled and the rest of the game is short enough to be played out in full.
MidGameLine ==
    << Point(1, 0), Point(0, 2), Point(1, 3), Point(2, 0),
       Point(3, 1), Point(0, 3), Point(0, 1), Point(3, 2) >>

\* Positions a game on the small board starts from.
StartPositions ==
    { new_game(Size), finish_position(Size), cant_put_position(Size),
      after_calls(new_game(Size), MidGameLine) }

\* Positions on the default board: the opening and those of the tests.
DefaultStartPositions ==
    { new_game(DEFAULT_BOARD_SIZE), finish_position(DEFAULT_BOARD_SIZE),
      cant_put_position(DEFAULT_BOARD_SIZE) }

\* ------------------------------------------------------- state machine
VARIABLES
    board,      \* the grid owned by the board object
    turn,       \* the stored turn (self.board.turn())
    result,     \* what the last put_stone call returned
    call,       \* the last call: its coordinates and the acting player
    old_board,  \* the grid when the last call was made
    old_turn,   \* the stored turn when the last call was made
    plies,      \* placements made since the start position
    reported,   \* a terminal outcome has been reported to the caller
    decision    \* the last decide call, until its move is played

vars ==
    <<board, turn, result, call, old_board, old_turn, plies, reported, decision>>

\* No strategy has been asked since the last placement.
NoDecision ==
    [by |-> "None", color |-> None, res |-> NoCall, point |-> Point(0, 0),
     before |-> <<>>]

Terminal == {"GameOverWithWinner", "GameOverWithDraw"}

PlyLimit(b) == IF size(b) = DEFAULT_BOARD_SIZE THEN MaxPliesDefault ELSE MaxPlies

BoardPlyLimit(b) ==
    IF size(b) = DEFAULT_BOARD_SIZE THEN MaxPliesDefault ELSE MaxBoardPlies

Coords(b) == 0..(size(b) - 1 + Overshoot)

StartFrom(positions) ==
    /\ \E g \in positions : board = g.board /\ turn = g.turn
    /\ result = NoCall
    /\ call = [x |-> 0, y |-> 0, player |-> turn]
    /\ old_board = board
    /\ old_turn = turn
    /\ plies = 0
    /\ reported = FALSE
    /\ decision = NoDecision

Init == StartFrom(StartPositions)

InitDefault == StartFrom(DefaultStartPositions)

\* The caller invokes SimpleReversiGame::put_stone(x, y).
GamePutStone(x, y) ==
    \E r \in {game_put_stone(board, turn, x, y)} :
        /\ r.board = board \/ plies < PlyLimit(board)
        /\ board' = r.board
        /\ turn' = r.turn
        /\ result' = r.res
        /\ call' = [x |-> x, y |-> y, player |-> turn]
        /\ old_board' = board
        /\ old_turn' = turn
        /\ plies' = IF r.board = board THEN plies ELSE plies + 1
        /\ reported' = (reported \/ r.res.kind \in Terminal)
        /\ UNCHANGED decision

Next == \E x \in Coords(board), y \in Coords(board) : GamePutStone(x, y)

Spec == Init /\ [][Next]_vars

\* The same controller on the default board.
SpecDefault == InitDefault /\ [][Next]_vars

\* The caller invokes ArrayBasedBoard::put_stone(x, y, player) directly; the
\* board object holds no turn.
BoardPutStone(x, y, player) ==
    \E r \in {put_stone(board, x, y, player)} :
        /\ r.board = board \/ plies < BoardPlyLimit(board)
        /\ board' = r.board
        /\ result' = r.res
        /\ call' = [x |-> x, y |-> y, player |-> player]
        /\ old_board' = board
        /\ plies' = IF r.board = board THEN plies ELSE plies + 1
        /\ reported' = (reported \/ r.res.kind \in Terminal)
        /\ UNCHANGED <<turn, old_turn, decision>>

NextBoard ==
    \E x \in Coords(board), y \in Coords(board), player \in Stone :
        BoardPutStone(x, y, player)

SpecBoard == Init /\ [][NextBoard]_vars

\* A program that lets strategies choose the moves: it asks a strategy for
\* the move of one side, handing it the board, and then plays that move.
Running == decision = NoDecision

\* The values rand::random::<usize>() may draw.
RandomDraws == 0..MaxRandom

RandomDecide(color, rnd) ==
    /\ Running
    /\ \E r \in {RandomComputer_decide(board, color, rnd)} :
          decision' = [by |-> "Random", color |-> color, res |-> r.res,
                       point |-> r.point, before |-> board]
    /\ UNCHANGED <<board, turn, result, call, old_board, old_turn, plies, reported>>

SimpleDecide(color) ==
    /\ Running
    /\ \E r \in {SimpleComputer_decide(board, color)} :
          decision' = [by |-> "Simple", color |-> color, res |-> r.res,
                       point |-> r.point, before |-> board]
    /\ UNCHANGED <<board, turn, result, call, old_board, old_turn, plies, reported>>

WeightedDecide(color) ==
    /\ Running
    /\ \E r \in {WeightedComputer_decide(board, color)} :
          /\ board' = r.board
          /\ decision' = [by |-> "Weighted", color |-> color, res |-> r.res,
                          point |-> r.point, before |-> board]
    /\ UNCHANGED <<turn, result, call, old_board, old_turn, plies, reported>>

\* The move a strategy returned is played on the board for its colour.
ComputerPutStone ==
    /\ decision.res = Ok
    /\ plies < MaxComputerPlies
    /\ \E r \in {put_stone(board, decision.point.x, decision.point.y,
                            decision.color)} :
          /\ board' = r.board
          /\ result' = r.res
          /\ call' = [x |-> decision.point.x, y |-> decision.point.y,
                      player |-> decision.color]
          /\ old_board' = board
          /\ plies' = plies + 1
          /\ reported' = (reported \/ r.res.kind \in Terminal)
    /\ decision' = NoDecision
    /\ UNCHANGED <<turn, old_turn>>

NextComputer ==
    \/ \E color \in Stone, rnd \in RandomDraws : RandomDecide(color, rnd)
    \/ \E color \in Stone : SimpleDecide(color)
    \/ \E color \in Stone : WeightedDecide(color)
    \/ ComputerPutStone

InitComputer == StartFrom(StartPositions \cup DefaultStartPositions)

SpecComputer == InitComputer /\ [][NextComputer]_vars

\* A whole game from the standard opening of the small board: the caller
\* plays a legal move of the side to move for as long as there is one.
PlayMove(x, y) ==
    /\ game_check_can_put(board, turn, x, y)
    /\ plies < MaxGamePlies
    /\ \E r \in {game_put_stone(board, turn, x, y)} :
          /\ board' = r.board
          /\ turn' = r.turn
          /\ result' = r.res
          /\ call' = [x |-> x, y |-> y, player |-> turn]
          /\ old_board' = board
          /\ old_turn' = turn
          /\ plies' = IF r.board = board THEN plies ELSE plies + 1
          /\ reported' = (reported \/ r.res.kind \in Terminal)
          /\ UNCHANGED decision

NextGame ==
    \E x \in 0..(size(board) - 1), y \in 0..(size(board) - 1) : PlayMove(x, y)

InitGame == StartFrom({new_game(Size)})

SpecGame == InitGame /\ [][NextGame]_vars

\* The placement of a stone while the side to move has a legal move, seen
\* through the placement counter alone.
PlayOn ==
    /\ \E x \in 0..(size(board) - 1), y \in 0..(size(board) - 1) :
          game_check_can_put(board, turn, x, y)
    /\ plies < MaxGamePlies
    /\ plies' = plies + 1

\* Legal moves keep being played: as long as the side to move has one, a
\* stone is eventually placed.
FairSpecGame == SpecGame /\ WF_plies(PlayOn)

\* ------------------------------------------------------- the rules, stated
\* The eight compass directions.
Compass == {d \in (-1..1) \X (-1..1) : d # <<0, 0>>}

\* Next to (x, y) in direction d lie exactly k >= 1 consecutive stones of
\* opposite(player), immediately followed by a stone of player.
Sandwich(b, x, y, d, k, player) ==
    /\ k >= 1
    /\ \A j \in 1..k : get_at(b, x + j * d[1], y + j * d[2]) = Opposite(player)
    /\ get_at(b, x + (k + 1) * d[1], y + (k + 1) * d[2]) = player

LegalMove(b, x, y, player) ==
    /\ in_range(b, x, y)
    /\ get_at(b, x, y) = None
    /\ \E d \in Compass, k \in 1..size(b) : Sandwich(b, x, y, d, k, player)

\* The cells of all sandwiched runs of a placement by player at (x, y).
SandwichedCells(b, x, y, player) ==
    { Point(x + t[3] * t[1][1], y + t[3] * t[1][2]) :
        t \in { u \in Compass \X (1..size(b)) \X (1..size(b)) :
                  u[3] <= u[2] /\ Sandwich(b, x, y, u[1], u[2], player) } }

\* The directions in which a placement by player at (x, y) sandwiches a run.
SandwichDirections(b, x, y, player) ==
    {d \in Compass : \E k \in 1..size(b) : Sandwich(b, x, y, d, k, player)}

\* The grid a legal placement by player at (x, y) must leave.
Expected(b, x, y, player) ==
    LET cells == SandwichedCells(b, x, y, player)
    IN  [r \in 1..size(b) |-> [c \in 1..size(b) |->
            IF (c - 1 = x /\ r - 1 = y) \/ Point(c - 1, r - 1) \in cells
            THEN player ELSE b[r][c]]]

Called == result # NoCall

RejectKinds == {"InvalidMove", "IndexOutOfBound", "StoneAlreadyPlaced"}

\* The position is a start position or was produced by the last call.  A
\* rejected call leaves the position of such a state, so what holds of every
\* position need only be evaluated in these states.
NewPosition == result.kind \notin RejectKinds

\* The last call was a legal move of the acting player.
LegalCall == Called /\ LegalMove(old_board, call.x, call.y, call.player)

\* ------------------------------------------------------------------ C1
\* C1: a put_stone call that fails with InvalidMove, IndexOutOfBound or
\* StoneAlreadyPlaced leaves every cell of the board and the stored turn as
\* they were before the call; the same holds of the board object's own
\* put_stone for every call that could be made in the current position.
C1_RejectedCallChangesNothing ==
    /\ result.kind \in RejectKinds => board = old_board /\ turn = old_turn
    /\ NewPosition =>
          \A x \in Coords(board), y \in Coords(board), p \in Stone :
             \A r \in {put_stone(board, x, y, p)} :
                r.res.kind \in RejectKinds => r.board = board

\* A call on an empty in-range cell next to an opponent stone was rejected.
C1_Witness ==
    /\ result = InvalidMove
    /\ in_range(old_board, call.x, call.y)
    /\ get_at(old_board, call.x, call.y) = None
    /\ \E d \in Compass :
          get_at(old_board, call.x + d[1], call.y + d[2]) = Opposite(call.player)

\* ------------------------------------------------------------------ C2
\* C2: check_can_put(x, y, player) is true exactly when (x, y) is in range
\* and empty and some direction holds one or more consecutive opponent stones
\* immediately followed by a stone of player; put_stone on a cell for which it
\* is false fails with InvalidMove.
C2_CheckCanPutIsSandwich ==
    /\ NewPosition =>
          \A x \in Coords(board), y \in Coords(board), p \in Stone :
             /\ check_can_put(board, x, y, p) <=> LegalMove(board, x, y, p)
             /\ game_check_can_put(board, p, x, y) <=> LegalMove(board, x, y, p)
             /\ ~LegalMove(board, x, y, p)
                   => put_stone(board, x, y, p).res = InvalidMove
    /\ (Called /\ ~LegalMove(old_board, call.x, call.y, call.player))
          => result = InvalidMove

\* A call was rejected on an empty cell from which a run of opponent stones
\* reaches an empty cell or the edge.
C2_Witness ==
    /\ result = InvalidMove
    /\ in_range(old_board, call.x, call.y)
    /\ get_at(old_board, call.x, call.y) = None
    /\ \E d \in Compass, k \in 1..size(old_board) :
          /\ \A j \in 1..k :
                get_at(old_board, call.x + j * d[1], call.y + j * d[2])
                   = Opposite(call.player)
          /\ get_at(old_board, call.x + (k + 1) * d[1], call.y + (k + 1) * d[2])
                = None

\* ------------------------------------------------------------------ C3
\* C3: after a legal placement by player at (x, y) the board differs from the
\* board before the call in exactly these cells: (x, y) holds player, and every
\* cell of every run sandwiched on the board before the call has turned from
\* opposite(player) to player; the same holds of the board object's put_stone.
C3_PlacementFrame ==
    /\ LegalCall => board = Expected(old_board, call.x, call.y, call.player)
    /\ NewPosition =>
          \A x \in Coords(board), y \in Coords(board), p \in Stone :
             LegalMove(board, x, y, p)
                => put_stone(board, x, y, p).board = Expected(board, x, y, p)

\* A legal placement sandwiched runs in two or more directions.
C3_Witness ==
    /\ LegalCall
    /\ Cardinality(SandwichDirections(old_board, call.x, call.y, call.player)) >= 2
    /\ board # old_board

\* ------------------------------------------------------------------ C4
\* The last call aimed at an in-range cell that already held a stone.
OccupiedCall ==
    /\ Called
    /\ in_range(old_board, call.x, call.y)
    /\ get_at(old_board, call.x, call.y) # None

\* C4 (as amended): a put_stone call aimed at an in-range cell that already
\* holds a stone always fails, with InvalidMove, and never mutates the board;
\* the controller's put_stone answers the same in every position.
C4_OccupiedCellIsInvalidMove ==
    /\ OccupiedCall => result = InvalidMove /\ board = old_board
    /\ NewPosition =>
          \A x \in Coords(board), y \in Coords(board), p \in Stone :
             (in_range(board, x, y) /\ get_at(board, x, y) # None)
                => game_put_stone(board, p, x, y)
                      = [board |-> board, turn |-> p, res |-> InvalidMove]

\* C4 as claimed: such a call fails with StoneAlreadyPlaced and never mutates
\* the board.
C4_OccupiedCellIsStoneAlreadyPlaced ==
    OccupiedCall => result = StoneAlreadyPlaced /\ board = old_board

\* A call aimed at a stone of the opponent was rejected.
C4_Witness ==
    /\ OccupiedCall
    /\ get_at(old_board, call.x, call.y) = Opposite(call.player)
    /\ result = InvalidMove
    /\ board = old_board

\* ------------------------------------------------------------------ C5
\* The last call named a coordinate outside the board.
OutOfRangeCall == Called /\ ~in_range(old_board, call.x, call.y)

\* C5 (as amended): a put_stone call with a coordinate outside 0 <= x, y < N
\* always fails, with InvalidMove, and never mutates the board; the
\* controller's put_stone answers the same in every position.
C5_OutOfRangeIsInvalidMove ==
    /\ OutOfRangeCall => result = InvalidMove /\ board = old_board
    /\ NewPosition =>
          \A x \in Coords(board), y \in Coords(board), p \in Stone :
             ~in_range(board, x, y)
                => game_put_stone(board, p, x, y)
                      = [board |-> board, turn |-> p, res |-> InvalidMove]

\* C5 as claimed: such a call fails with IndexOutOfBound and never mutates
\* the board.
C5_OutOfRangeIsIndexOutOfBound ==
    OutOfRangeCall => result = IndexOutOfBound /\ board = old_board

\* A call one column past the last one, next to stones on the edge, was
\* rejected.
C5_Witness ==
    /\ OutOfRangeCall
    /\ call.x = size(old_board)
    /\ get_at(old_board, call.x - 1, call.y) # None
    /\ result = InvalidMove
    /\ board = old_board

\* ------------------------------------------------------------------ C6
HasMove(b, player) ==
    \E x \in 0..(size(b) - 1), y \in 0..(size(b) - 1) : LegalMove(b, x, y, player)

Full(b) ==
    \A x \in 0..(size(b) - 1), y \in 0..(size(b) - 1) : get_at(b, x, y) # None

\* C6: if, after a placement that does not fill the board, the opponent has no
\* legal move but the mover has one, put_stone returns NextPlayerCantPutStone
\* and the stored turn is the one stored before the call.
C6_ForcedPassKeepsTurn ==
    (/\ LegalCall
     /\ ~Full(board)
     /\ ~HasMove(board, Opposite(call.player))
     /\ HasMove(board, call.player))
        => result = NextPlayerCantPutStone /\ turn = old_turn

\* A placement left the opponent without a move and the mover with one.
C6_Witness ==
    /\ LegalCall
    /\ ~Full(board)
    /\ ~HasMove(board, Opposite(call.player))
    /\ HasMove(board, call.player)
    /\ result = NextPlayerCantPutStone
    /\ turn = call.player

\* ------------------------------------------------------------------ C7
\* The default board after Black's opening move (3, 2), which turns (3, 3).
AfterBlack32 ==
    set_at(set_at(new_game(DEFAULT_BOARD_SIZE).board, 3, 2, Black), 3, 3, Black)

\* C7: when put_stone returns Ok the stored turn has flipped once, to the
\* opposite side; from the standard opening Black's (3, 2) and then White's
\* (2, 4) both succeed, the turn going Black, White, Black.
C7_OkAdvancesTurn ==
    /\ result = Ok => turn = Opposite(old_turn)
    /\ (/\ Called
        /\ old_board = new_game(DEFAULT_BOARD_SIZE).board
        /\ old_turn = Black
        /\ call.x = 3 /\ call.y = 2)
          => result = Ok /\ turn = White /\ board = AfterBlack32
    /\ (/\ Called
        /\ old_board = AfterBlack32
        /\ old_turn = White
        /\ call.x = 2 /\ call.y = 4)
          => result = Ok /\ turn = Black

\* White's (2, 4) has just answered Black's (3, 2).
C7_Witness ==
    /\ old_board = AfterBlack32
    /\ old_turn = White
    /\ call = [x |-> 2, y |-> 4, player |-> White]
    /\ result = Ok
    /\ turn = Black
    /\ plies = 2

\* ------------------------------------------------------------------ C8
\* C8: once put_stone has reported GameOverWithWinner or GameOverWithDraw,
\* every later put_stone call is rejected and leaves the board and the stored
\* turn unchanged.
C8_TerminalIsFinal ==
    [][reported =>
          /\ result'.kind \in RejectKinds
          /\ board' = board
          /\ turn' = turn]_vars

\* After a game ended with empty cells left, a call on an empty cell was
\* rejected.
C8_Witness ==
    /\ reported
    /\ result = InvalidMove
    /\ in_range(board, call.x, call.y)
    /\ get_at(board, call.x, call.y) = None
    /\ board = old_board

\* ------------------------------------------------------------------ C9
\* The number of cells a side owns.
Owned(b, s) ==
    Cardinality({p \in (0..(size(b) - 1)) \X (0..(size(b) - 1)) :
                    get_at(b, p[1], p[2]) = s})

\* C9: every terminal outcome agrees with the stone counts on the board the
\* call left: GameOverWithWinner(s) only when s owns strictly more cells than
\* the other side, GameOverWithDraw only when both own equally many.
C9_TerminalMatchesCount ==
    /\ result.kind = "GameOverWithWinner"
          => Owned(board, result.who) > Owned(board, Opposite(result.who))
    /\ result = GameOverWithDraw => Owned(board, Black) = Owned(board, White)

\* The side that filled the last cell lost.
C9_Witness ==
    /\ LegalCall
    /\ Full(board)
    /\ result = GameOverWithWinner(Opposite(call.player))
    /\ Owned(board, Opposite(call.player)) > Owned(board, call.player)

\* ----------------------------------------------------------------- C10
\* C10 as claimed: a placement that leaves the opponent without a stone, and
\* so without a legal move, while empty cells remain makes put_stone return
\* NextPlayerCantPutStone.
C10_LastStonesFlippedIsPass ==
    (/\ LegalCall
     /\ Owned(board, Opposite(call.player)) = 0
     /\ ~HasMove(board, Opposite(call.player))
     /\ ~Full(board))
        => result = NextPlayerCantPutStone

Flipped(b, x, y, player) == Cardinality(SandwichedCells(b, x, y, player))

Stones(b) == Owned(b, Black) + Owned(b, White)

\* C12 (as amended): every legal move turns over one stone or more, raises
\* the mover's number of stones by exactly 1 + (the number of stones flipped),
\* lowers the opponent's by the number flipped, raises the total number of
\* stones on the board by exactly 1 and lowers the number of empty cells by
\* exactly 1; the same holds of the board object's put_stone.
C12_MoverGainsOnePlusFlipped ==
    /\ LegalCall =>
          LET k == Flipped(old_board, call.x, call.y, call.player)
          IN  /\ k >= 1
              /\ Owned(board, call.player) = Owned(old_board, call.player) + 1 + k
              /\ Owned(board, Opposite(call.player))
                    = Owned(old_board, Opposite(call.player)) - k
              /\ Stones(board) = Stones(old_board) + 1
              /\ Owned(board, None) = Owned(old_board, None) - 1
    /\ NewPosition =>
          \A x \in Coords(board), y \in Coords(board), p \in Stone :
             LegalMove(board, x, y, p) =>
                \A r \in {put_stone(board, x, y, p).board} :
                   /\ Owned(r, p) = Owned(board, p) + 1 + Flipped(board, x, y, p)
                   /\ Stones(r) = Stones(board) + 1
                   /\ Owned(r, None) = Owned(board, None) - 1

\* C12 as claimed: every legal move raises the total number of stones on the
\* board by exactly 1 + (the number of stones flipped) and lowers the number
\* of empty cells by exactly 1.
C12_TotalGainsOnePlusFlipped ==
    LegalCall =>
       /\ Stones(board) = Stones(old_board) + 1
                              + Flipped(old_board, call.x, call.y, call.player)
       /\ Owned(board, None) = Owned(old_board, None) - 1

\* A legal move turned over three stones or more.
C12_Witness ==
    /\ LegalCall
    /\ Flipped(old_board, call.x, call.y, call.player) >= 3
    /\ Owned(board, call.player) >= Owned(old_board, call.player) + 4
    /\ Stones(board) = Stones(old_board) + 1

\* ----------------------------------------------------------------- C13
Cells(b) == (0..(size(b) - 1)) \X (0..(size(b) - 1))

\* What one call may do to the stones of grid b, leaving grid nb: no stone
\* leaves the board, and a stone changes owner only if the call was a legal
\* move of player at (x, y) that sandwiched it, and then it belongs to player.
StonesKept(b, nb, x, y, player) ==
    \A c \in Cells(b) :
       get_at(b, c[1], c[2]) # None =>
          /\ get_at(nb, c[1], c[2]) # None
          /\ get_at(nb, c[1], c[2]) # get_at(b, c[1], c[2]) =>
                /\ LegalMove(b, x, y, player)
                /\ Point(c[1], c[2]) \in SandwichedCells(b, x, y, player)
                /\ get_at(nb, c[1], c[2]) = player

\* C13: over any sequence of put_stone calls an occupied cell never becomes
\* empty again, and it changes owner only as one of the flips of a legal
\* placement, never on a failed call; the controller's put_stone obeys the
\* same in every position.
C13_StonesStayAndTurnOnlyByFlips ==
    /\ StonesKept(old_board, board, call.x, call.y, call.player)
    /\ result.kind \notin {"Ok", "NextPlayerCantPutStone"} \cup Terminal
          => board = old_board
    /\ NewPosition =>
          \A x \in Coords(board), y \in Coords(board), p \in Stone :
             \A r \in {game_put_stone(board, p, x, y)} :
                /\ StonesKept(board, r.board, x, y, p)
                /\ r.res.kind \notin {"Ok", "NextPlayerCantPutStone"} \cup Terminal
                      => r.board = board

\* The second placement after the opening turned over a stone that the first
\* placement had put down or turned over.
C13_Witness ==
    /\ LegalCall
    /\ plies = 2
    /\ Stones(old_board) = Stones(new_game(Size).board) + 1
    /\ \E c \in Cells(board) :
          /\ get_at(new_game(Size).board, c[1], c[2])
                # get_at(old_board, c[1], c[2])
          /\ get_at(old_board, c[1], c[2]) = Opposite(call.player)
          /\ get_at(board, c[1], c[2]) = call.player

\* ----------------------------------------------------------------- C14
\* Grid b holds White at (N/2-1, N/2-1) and (N/2, N/2), Black at
\* (N/2, N/2-1) and (N/2-1, N/2), and nothing else.
CentreDiagonal(b) ==
    LET h == size(b) \div 2
    IN  \A c \in Cells(b) :
           get_at(b, c[1], c[2]) =
              IF c \in {<<h - 1, h - 1>>, <<h, h>>} THEN White
              ELSE IF c \in {<<h, h - 1>>, <<h - 1, h>>} THEN Black
              ELSE None

\* The game is as its constructor left it.
FreshGame == result = NoCall /\ board = new_game(size(board)).board

\* C14: a freshly constructed game has exactly 4 stones, 2 per side, on the
\* four centre cells in the diagonal pattern (White at (N/2-1, N/2-1) and
\* (N/2, N/2), Black at (N/2, N/2-1) and (N/2-1, N/2)), every other cell is
\* empty, and Black is to move; so it is for every even board size from the
\* small board to the default board.
C14_FreshGameIsCentredDiagonal ==
    /\ FreshGame =>
          /\ CentreDiagonal(board)
          /\ Stones(board) = 4
          /\ Owned(board, Black) = 2
          /\ Owned(board, White) = 2
          /\ turn = Black
    /\ result = NoCall =>
          \A n \in {Size, Size + 2, DEFAULT_BOARD_SIZE} :
             /\ CentreDiagonal(new_game(n).board)
             /\ count(new_game(n).board, Black) = 2
             /\ count(new_game(n).board, White) = 2
             /\ new_game(n).turn = Black

\* The default game before its first call: rows 3 and 4 read ...WB... and
\* ...BW... .
C14_Witness ==
    /\ FreshGame
    /\ size(board) = DEFAULT_BOARD_SIZE
    /\ plies = 0
    /\ get_at(board, 3, 3) = White /\ get_at(board, 4, 3) = Black
    /\ get_at(board, 3, 4) = Black /\ get_at(board, 4, 4) = White
    /\ turn = Black

\* ----------------------------------------------------------------- C15
\* The legal moves of a side, as points.
LegalMoves(b, color) ==
    { Point(c[1], c[2]) : c \in {d \in Cells(b) : LegalMove(b, d[1], d[2], color)} }

\* A strategy has just been asked for a move.
Asked == decision.by # "None"

\* Point q is enumerated before point p by "for y { for x { .. } }".
RowMajorBefore(q, p) == q.y < p.y \/ (q.y = p.y /\ q.x < p.x)

\* C15: on every board on which the colour a strategy is bound to has a legal
\* move, decide of the Random, the Greedy-flip-count and the
\* Weighted-heuristic strategy returns a point of the legal-move set of that
\* colour on that board; played on the board, the point is never refused.
C15_DecideReturnsLegalMove ==
    /\ (Asked /\ HasMove(decision.before, decision.color)) =>
          /\ decision.res = Ok
          /\ decision.point \in LegalMoves(decision.before, decision.color)
    /\ Called => result.kind \notin RejectKinds

\* The Random strategy returned a legal move that is neither the first nor
\* the second one enumerated.
C15_Witness ==
    /\ decision.by = "Random"
    /\ decision.res = Ok
    /\ decision.point \in LegalMoves(decision.before, decision.color)
    /\ Cardinality({q \in LegalMoves(decision.before, decision.color) :
                       RowMajorBefore(q, decision.point)}) >= 2

\* ----------------------------------------------------------------- C16
\* The flip counts of the legal moves of a side.
FlipCounts(b, color) ==
    { Flipped(b, q.x, q.y, color) : q \in LegalMoves(b, color) }

C17_WeightedDecideKeepsBoard ==
    decision.by = "Weighted" => board = decision.before

\* The strategy returned after simulating two or more placements, each of
\* which changes the grid it is played on.
C17_Witness ==
    /\ decision.by = "Weighted"
    /\ decision.res = Ok
    /\ Cardinality(LegalMoves(decision.before, decision.color)) >= 2
    /\ \A q \in LegalMoves(decision.before, decision.color) :
          put_stone(decision.before, q.x, q.y, decision.color).board
             # decision.before
    /\ board = decision.before

\* ----------------------------------------------------------------- C18
\* The sum of the positional weights of a set of cells.
RECURSIVE SumWeights(_)
SumWeights(S) ==
    IF S = {} THEN 0
    ELSE LET c == CHOOSE d \in S : TRUE
         IN  WEIGHTS[c[2] + 1][c[1] + 1] + SumWeights(S \ {c})

\* Weights of the cells color owns minus weights of the cells the opponent
\* owns, in the position a placement by color at q leaves.
Differential(b, q, color) ==
    LET nb == Expected(b, q.x, q.y, color)
    IN  SumWeights({c \in Cells(nb) : get_at(nb, c[1], c[2]) = color})
           - SumWeights({c \in Cells(nb) : get_at(nb, c[1], c[2]) = Opposite(color)})

\* C18: WeightedComputer::decide returns the first legal move, in row-major
\* enumeration order, whose one-ply simulated position (placement and flips)
\* attains the maximum over all legal moves of the sum of the positional
\* weights of the cells of its colour minus that of the opponent's cells.
C18_WeightedTakesFirstMaximum ==
    (decision.by = "Weighted" /\ decision.res = Ok) =>
       LET b == decision.before
           c == decision.color
           p == decision.point
           best == Differential(b, p, c)
       IN  /\ p \in LegalMoves(b, c)
           /\ \A q \in LegalMoves(b, c) :
                 /\ Differential(b, q, c) <= best
                 /\ RowMajorBefore(q, p) => Differential(b, q, c) < best

\* On the default board the strategy passed over an earlier move of lower
\* differential and returned the first of two moves that tie for the maximum.
C18_Witness ==
    /\ decision.by = "Weighted"
    /\ decision.res = Ok
    /\ size(decision.before) = DEFAULT_BOARD_SIZE
    /\ \E q \in LegalMoves(decision.before, decision.color) :
          /\ RowMajorBefore(q, decision.point)
          /\ Differential(decision.before, q, decision.color)
                < Differential(decision.before, decision.point, decision.color)
    /\ \E q \in LegalMoves(decision.before, decision.color) :
          /\ RowMajorBefore(decision.point, q)
          /\ Differential(decision.before, q, decision.color)
                = Differential(decision.before, decision.point, decision.color)

\* ----------------------------------------------------------------- C19
\* Neither side has a legal move on grid b.
NoMoves(b) == ~HasMove(b, Black) /\ ~HasMove(b, White)

FlipFailures == {"NoStoneToFlip", "IndexOutOfBound", "Panic"}

\* The points put_stone hands to flip for a placement by player at (x, y) on
\* grid b: each is in range and holds a stone of the opponent, and no point
\* occurs twice.
FlipsSound(b, x, y, player) ==
    LET points == get_flippable(set_at(b, x, y, player), x, y, player)
    IN  /\ points # <<>>
        /\ \A i \in 1..Len(points) :
              /\ in_range(b, points[i].x, points[i].y)
              /\ get_at(b, points[i].x, points[i].y) = Opposite(player)
              /\ \A j \in 1..Len(points) : points[i] = points[j] => i = j
        /\ flip_each_unwrap(set_at(b, x, y, player), points).res = Ok

\* C20: during a legal placement every flip targets an in-range cell that
\* holds an opponent stone and no cell is flipped more than once, so flip
\* never fails with NoStoneToFlip or IndexOutOfBound inside put_stone and the
\* unwrap on its result never aborts; nor does a flip fail in the controller's
\* put_stone.
C20_FlipsNeverFail ==
    /\ result.kind \notin FlipFailures
    /\ LegalCall => FlipsSound(old_board, call.x, call.y, call.player)
    /\ NewPosition =>
          \A x \in Coords(board), y \in Coords(board), p \in Stone :
             /\ put_stone(board, x, y, p).res.kind \notin FlipFailures
             /\ game_put_stone(board, p, x, y).res.kind \notin FlipFailures

\* A legal placement flipped runs in two or more directions, three stones or
\* more in all.
C20_Witness ==
    /\ LegalCall
    /\ result.kind \in {"Ok", "NextPlayerCantPutStone"} \cup Terminal
    /\ Cardinality(SandwichDirections(old_board, call.x, call.y, call.player)) >= 2
    /\ Len(get_flippable(set_at(old_board, call.x, call.y, call.player),
                         call.x, call.y, call.player)) >= 3
    /\ FlipsSound(old_board, call.x, call.y, call.player)

\* ----------------------------------------------------------------- C21
\* C21: in every state reached from the standard opening through put_stone
\* calls in which no terminal outcome has been reported yet, the side whose
\* turn is stored has a legal move, and the controller's move list for it is
\* not empty.
C21_SideToMoveCanMove ==
    ~reported =>
       /\ HasMove(board, turn)
       /\ game_get_can_put_stones(board, turn) # <<>>

\* After a forced pass the game goes on: the mover keeps the turn and has a
\* move, the opponent has none.
C21_Witness ==
    /\ ~reported
    /\ result = NextPlayerCantPutStone
    /\ turn = call.player
    /\ HasMove(board, turn)
    /\ ~HasMove(board, Opposite(turn))
    /\ Owned(board, Opposite(turn)) > 0

\* ----------------------------------------------------------------- C22
\* Stones on the board of the standard opening.
OpeningStones == Stones(new_game(Size).board)

\* C22: from the standard opening on an N x N board at most N * N - 4
\* put_stone calls ever place a stone, each of them adding one stone to the
\* board, and if legal moves keep being played GameOverWithWinner or
\* GameOverWithDraw is eventually reported.
C22_GameEnds ==
    /\ [](/\ plies <= Size * Size - OpeningStones
          /\ Stones(board) = OpeningStones + plies
          /\ reported => result.kind \in Terminal)
    /\ <>reported

\* A game ended with the placement that filled the last cell, the
\* (N * N - 4)-th of the game.
C22_Witness ==
    /\ reported
    /\ result.kind \in Terminal
    /\ plies = Size * Size - OpeningStones
    /\ Full(board)
    /\ LegalCall

====
